---- MODULE Spec2Model ----
(***************************************************************************)
(* ColorPeek: the dominant-colour pipeline of app.py.                      *)
(*                                                                         *)
(* index() parses the form, calls extract_palette_pillow(image,            *)
(* num_colors) and then builds a 600-bounded preview of the upload.        *)
(* extract_palette_pillow copies the image, thumbnails the copy to 800,    *)
(* flattens transparency onto white, quantizes to an adaptive palette,     *)
(* counts the pixels per palette index, sorts, and formats the first       *)
(* num_colors entries.                                                     *)
(*                                                                         *)
(* An image is a record [mode, size, transparency, px].  px is the bag of  *)
(* the image's pixels in their RGBA view (what image.convert("RGBA")       *)
(* yields): a function from <<r, g, b, a>> to the number of pixels with    *)
(* that value.  Pixel positions play no part in the pipeline past the      *)
(* resampling of thumbnail(), and the images drawn larger than the         *)
(* thumbnail bound are of one pixel value, which resampling keeps.         *)
(* Percentages are kept in hundredths (100.0 is 10000).                    *)
(***************************************************************************)
EXTENDS Integers, Sequences, FiniteSets, TLC

\* Bounds of the model: distinct pixel values per image, pixels of a minor value.
MaxDistinct == 3
MaxMinor == 2

\* Program constants.
resize_for_speed == 800
PREVIEW_SIZE == 600
DEFAULT_NUM_COLORS == 6
MIN_NUM_COLORS == 1
MAX_NUM_COLORS == 20
WHITE == 255

VARIABLES
    pc,            \* position in index() / extract_palette_pillow()
    objs,          \* the heap: image objects by identity
    image,         \* the object the local name `image` of the extractor is bound to
    upload,        \* the decoded upload as index() opened it (kept for comparison)
    num_colors,    \* the clamped colour count
    paletted,      \* the quantized image: palette and the index of each colour
    palette,       \* paletted.getpalette(): flat <<r0, g0, b0, r1, ...>>
    color_counts,  \* list of <<count, palette index>>
    total,         \* the percentage denominator
    i,             \* loop variable of the format loop
    results,       \* the list under construction / returned
    stages         \* the pipeline stages that have run in this call

vars == <<pc, objs, image, upload, num_colors, paletted, palette,
          color_counts, total, i, results, stages>>

----------------------------------------------------------------------------
\* Arithmetic helpers

Min(a, b) == IF a <= b THEN a ELSE b
Max(a, b) == IF a >= b THEN a ELSE b

RECURSIVE SumOver(_, _)
\* sum of f[x] for x in S
SumOver(f, S) ==
    IF S = {} THEN 0
    ELSE LET x == CHOOSE y \in S : TRUE IN f[x] + SumOver(f, S \ {x})

RECURSIVE SumCountsOf(_)
\* sum of the first components of a sequence of pairs
SumCountsOf(s) == IF s = <<>> THEN 0 ELSE Head(s)[1] + SumCountsOf(Tail(s))

\* nearest integer to n / d, and at least 1 (d > 0)
RoundAspect(n, d) == Max((2 * n + d) \div (2 * d), 1)

----------------------------------------------------------------------------
\* Images

EmptyBag == [c \in {} |-> 0]
NoImage == [mode |-> "none", size |-> <<0, 0>>, transparency |-> FALSE, px |-> EmptyBag]
NoPaletted == [palette |-> <<>>, index |-> EmptyBag, px |-> EmptyBag]

Pixels(img) == SumOver(img.px, DOMAIN img.px)

\* Image.copy(): a new object with the same content.  CopyRef names the object
\* the result is: the fresh one.
CopyRefAlias(src, fresh) == src
CopyRef(src, fresh) == fresh

\* The size thumbnail((bound, bound)) gives an image of size <<w, h>>.
ThumbSize(w, h, bound) ==
    IF bound >= w /\ bound >= h THEN <<w, h>>
    ELSE IF h >= w THEN <<RoundAspect(bound * w, h), bound>>
    ELSE <<bound, RoundAspect(bound * h, w)>>

\* Image.thumbnail((bound, bound)): the image resized in place.  A uniform image
\* resamples to a uniform image of the new size.
Thumbnail(img, bound) ==
    LET sz == ThumbSize(img.size[1], img.size[2], bound)
    IN IF sz = img.size THEN img
       ELSE [img EXCEPT !.size = sz,
                        !.px = [c \in DOMAIN img.px |-> sz[1] * sz[2]]]

\* One channel of background.paste(image, mask=alpha): the source value v over
\* white with mask a, in 8-bit arithmetic.
PasteChannel(v, a) ==
    LET tmp == WHITE * (255 - a) + v * a + 128
    IN ((tmp \div 256) + tmp) \div 256

PasteOverWhite(c) ==
    <<PasteChannel(c[1], c[4]), PasteChannel(c[2], c[4]), PasteChannel(c[3], c[4]), 255>>

\* image.convert('RGB'): the alpha channel, if any, is dropped
ConvertRGB(c) == <<c[1], c[2], c[3], 255>>

HasTransparency(img) ==
    img.mode \in {"RGBA", "LA"} \/ (img.mode = "P" /\ img.transparency)

\* the opaque RGB value a pixel flattens to
FlattenPixel(c, transparent) ==
    IF transparent THEN PasteOverWhite(c) ELSE ConvertRGB(c)

\* the bag of the flattened pixels of bag px
FlattenBag(px, transparent) ==
    LET img == {FlattenPixel(c, transparent) : c \in DOMAIN px}
    IN [d \in img |->
           SumOver(px, {c \in DOMAIN px : FlattenPixel(c, transparent) = d})]

\* Step 2 of the extractor: the flattened RGB image
FlattenImage(img) ==
    [mode |-> "RGB", size |-> img.size, transparency |-> FALSE,
     px |-> FlattenBag(img.px, HasTransparency(img))]

----------------------------------------------------------------------------
\* Quantization: image.convert('P', palette=Image.ADAPTIVE, colors=k)

\* The ways to assign the colours D to palette indices 0..m-1, every index used
Assignments(D, m) ==
    {f \in [D -> 0 .. (m - 1)] : \A j \in 0 .. (m - 1) : \E c \in D : f[c] = j}

\* channel ch of the palette entry of the colours S of bag px: their mean
\* weighted by pixel count, rounded to nearest
BoxMean(px, S, ch) ==
    LET n == SumOver([c \in S |-> c[ch] * px[c]], S)
        d == SumOver(px, S)
    IN (2 * n + d) \div (2 * d)

\* the flat palette <<r0, g0, b0, r1, ...>> of assignment f with m entries
PaletteOf(px, f, m) ==
    [n \in 1 .. (3 * m) |->
        LET j == (n - 1) \div 3
            ch == ((n - 1) % 3) + 1
        IN BoxMean(px, {c \in DOMAIN px : f[c] = j}, ch)]

\* The quantizer's possible outcomes: at most k palette entries, at most one per
\* distinct colour, each pixel mapped to exactly one entry.  Which colours share
\* an entry is the quantizer's choice.  An image without pixels quantizes to an
\* empty paletted image.
Quantize(img, k) ==
    LET D == DOMAIN img.px
    IN IF D = {} THEN {NoPaletted}
       ELSE UNION {{[palette |-> PaletteOf(img.px, f, m), index |-> f, px |-> img.px] :
                        f \in Assignments(D, m)} : m \in 1 .. Min(k, Cardinality(D))}

\* paletted.getcolors(): <<count, index>> for every used index, by ascending index
RECURSIVE GetColorsFrom(_, _)
GetColorsFrom(pal, j) ==
    IF j * 3 >= Len(pal.palette) THEN <<>>
    ELSE LET n == SumOver(pal.px, {c \in DOMAIN pal.px : pal.index[c] = j})
         IN (IF n > 0 THEN <<(<<n, j>>)>> ELSE <<>>) \o GetColorsFrom(pal, j + 1)

GetColors(pal) == GetColorsFrom(pal, 0)

----------------------------------------------------------------------------
\* Count-and-rank and format

\* Python's order on the tuples (count, idx)
TupleGreater(a, b) == a[1] > b[1] \/ (a[1] = b[1] /\ a[2] > b[2])
CountLess(a, b) == a[1] < b[1]
TupleLess(a, b) == a[1] < b[1] \/ (a[1] = b[1] /\ a[2] < b[2])

\* x put into the descending list s, after the elements not less than it
RECURSIVE InsertReverse(_, _)
InsertReverse(x, s) ==
    IF s = <<>> THEN <<x>>
    ELSE IF TupleLess(Head(s), x) THEN <<x>> \o s
    ELSE <<Head(s)>> \o InsertReverse(x, Tail(s))

\* color_counts.sort(reverse=True)
RECURSIVE SortReverse(_)
SortReverse(s) ==
    IF s = <<>> THEN <<>>
    ELSE InsertReverse(s[Len(s)], SortReverse(SubSeq(s, 1, Len(s) - 1)))

\* total = sum(count for count, idx in color_counts)
MaxCountOf(cc) == cc[1][1]
TotalOf(cc) == SumCountsOf(cc)

\* '%02x' % v as two characters
HexDigits == <<"0", "1", "2", "3", "4", "5", "6", "7",
               "8", "9", "a", "b", "c", "d", "e", "f">>
Hex2(v) == <<HexDigits[(v \div 16) + 1], HexDigits[(v % 16) + 1]>>

\* '#%02x%02x%02x' % (r, g, b)
HexCode(r, g, b) == <<"#">> \o Hex2(r) \o Hex2(g) \o Hex2(b)

\* round((count / tot) * 100, 2) in hundredths: to nearest, a tie to even
TruncPercent(count, tot) == (count * 10000) \div tot
RoundPercent(count, tot) ==
    LET n == count * 10000
        q == n \div tot
        r == n % tot
    IN IF 2 * r > tot THEN q + 1
       ELSE IF 2 * r < tot THEN q
       ELSE IF q % 2 = 0 THEN q ELSE q + 1

\* the dictionary appended for color_counts[j] (0-based j)
ColorRecord(cc, pal, tot, j) ==
    LET count == cc[j + 1][1]
        idx == cc[j + 1][2]
        r == pal[idx * 3 + 1]
        g == pal[idx * 3 + 2]
        b == pal[idx * 3 + 3]
    IN [hex |-> HexCode(r, g, b), rgb |-> <<r, g, b>>, count |-> count,
        percent |-> RoundPercent(count, tot)]

\* num_colors = max(1, min(20, int(form value))), 6 when the value is no integer
ClampNumColors(form) ==
    IF form.kind = "int"
    THEN Max(MIN_NUM_COLORS, Min(MAX_NUM_COLORS, form.val))
    ELSE DEFAULT_NUM_COLORS

----------------------------------------------------------------------------
\* The inputs: uploads and form values

Black == <<0, 0, 0>>
Red == <<255, 0, 0>>
White == <<255, 255, 255>>

Px(c, a) == <<c[1], c[2], c[3], a>>

\* the pixel values drawn for an image of a mode
ModePixels(mode, transparency) ==
    CASE mode = "RGB" -> {Px(Black, 255), Px(Red, 255), Px(White, 255)}
      [] mode = "RGBA" -> {Px(Black, 255), Px(Red, 255), Px(White, 255),
                           Px(Red, 0), Px(Red, 128)}
      [] mode = "LA" -> {Px(Black, 255), Px(White, 255), Px(Black, 0)}
      [] mode = "P" /\ transparency -> {Px(Black, 255), Px(Red, 255), Px(Red, 0)}
      [] OTHER -> {Px(Black, 255), Px(Red, 255)}

ModeFlags == {<<"RGB", FALSE>>, <<"RGBA", FALSE>>, <<"LA", FALSE>>,
              <<"P", FALSE>>, <<"P", TRUE>>}

\* the sizes drawn: no pixel, the scenarios' sizes, a size whose single pixels
\* are under 0.005 %, and a size over the thumbnail bounds
Sizes == {<<0, 0>>, <<2, 2>>, <<3, 2>>, <<8, 4>>, <<10, 10>>, <<200, 150>>, <<1600, 2>>}

IsLarge(sz) == sz[1] > PREVIEW_SIZE \/ sz[2] > PREVIEW_SIZE

\* the bags over the pixel values S with n pixels: one value takes what the
\* others, of 1..MaxMinor pixels each, leave
BagsOver(S, n) ==
    UNION {{[c \in S |-> IF c = major THEN n - SumOver(minor, S \ {major}) ELSE minor[c]] :
                minor \in {f \in [S \ {major} -> 1 .. MaxMinor] :
                              SumOver(f, S \ {major}) < n}} : major \in S}

Uploads ==
    UNION {UNION {UNION {
        {[mode |-> mf[1], size |-> sz, transparency |-> mf[2], px |-> b] :
            b \in IF sz[1] * sz[2] = 0 THEN {EmptyBag}
                  ELSE IF Cardinality(S) = 0 \/ Cardinality(S) > MaxDistinct THEN {}
                  ELSE IF IsLarge(sz) /\ Cardinality(S) > 1 THEN {}
                  ELSE BagsOver(S, sz[1] * sz[2])}
        : S \in SUBSET ModePixels(mf[1], mf[2])} : sz \in Sizes} : mf \in ModeFlags}

\* request.form.get('num_colors', 6): absent, no integer, or an integer
FormValues ==
    {[kind |-> "absent", val |-> 0], [kind |-> "invalid", val |-> 0]}
    \cup {[kind |-> "int", val |-> v] : v \in (-1 .. MaxDistinct) \cup {25}}

ObjIds == {"upload", "copy", "background", "converted", "preview"}

----------------------------------------------------------------------------
\* The state machine

Init ==
    /\ pc = "request"
    /\ upload \in Uploads
    /\ objs = [o \in ObjIds |-> IF o = "upload" THEN upload ELSE NoImage]
    /\ image = "none"
    /\ num_colors = 0
    /\ paletted = NoPaletted
    /\ palette = <<>>
    /\ color_counts = <<>>
    /\ total = 0
    /\ i = 0
    /\ results = <<>>
    /\ stages = {}

\* index(): the colour count is read and clamped, and the extractor is called
ParseNumColors ==
    /\ pc = "request"
    /\ \E form \in FormValues : num_colors' = ClampNumColors(form)
    /\ pc' = "copy"
    /\ UNCHANGED <<objs, image, upload, paletted, palette, color_counts, total, i,
                   results, stages>>

\* image = pil_image.copy()
CopyImage ==
    /\ pc = "copy"
    /\ image' = CopyRef("upload", "copy")
    /\ objs' = [objs EXCEPT ![image'] = objs["upload"]]
    /\ pc' = "thumbnail"
    /\ UNCHANGED <<upload, num_colors, paletted, palette, color_counts, total, i,
                   results, stages>>

\* image.thumbnail((resize_for_speed, resize_for_speed)), in place
Downscale ==
    /\ pc = "thumbnail"
    /\ objs' = [objs EXCEPT ![image] = Thumbnail(@, resize_for_speed)]
    /\ stages' = stages \cup {"Downscale"}
    /\ pc' = "flatten"
    /\ UNCHANGED <<image, upload, num_colors, paletted, palette, color_counts, total,
                   i, results>>

\* Step 2: paste over a white background, or convert('RGB'); `image` is rebound
Flatten ==
    /\ pc = "flatten"
    /\ image' = IF HasTransparency(objs[image]) THEN "background" ELSE "converted"
    /\ objs' = [objs EXCEPT ![image'] = FlattenImage(objs[image])]
    /\ stages' = stages \cup {"Flatten"}
    /\ pc' = "quantize"
    /\ UNCHANGED <<upload, num_colors, paletted, palette, color_counts, total, i,
                   results>>

\* paletted = image.convert('P', ...); palette = paletted.getpalette()
QuantizeImage ==
    /\ pc = "quantize"
    /\ \E q \in Quantize(objs[image], num_colors) :
          /\ paletted' = q
          /\ palette' = q.palette
    /\ stages' = stages \cup {"Quantize"}
    /\ pc' = "getcolors"
    /\ UNCHANGED <<objs, image, upload, num_colors, color_counts, total, i, results>>

\* color_counts = paletted.getcolors(); an empty list is returned at once
CountColors ==
    /\ pc = "getcolors"
    /\ color_counts' = GetColors(paletted)
    /\ stages' = stages \cup {"CountAndRank"}
    /\ pc' = IF color_counts' = <<>> THEN "returned" ELSE "sort"
    /\ UNCHANGED <<objs, image, upload, num_colors, paletted, palette, total, i, results>>

\* color_counts.sort(reverse=True); total = sum(...); results = []
Rank ==
    /\ pc = "sort"
    /\ color_counts' = SortReverse(color_counts)
    /\ total' = TotalOf(color_counts')
    /\ results' = <<>>
    /\ i' = 0
    /\ pc' = "loop"
    /\ UNCHANGED <<objs, image, upload, num_colors, paletted, palette, stages>>

\* one pass of `for i in range(num_colors)`: color_counts[i] raises IndexError
\* past the end of the list
FormatStep ==
    /\ pc = "loop"
    /\ i < num_colors
    /\ stages' = stages \cup {"Format"}
    /\ IF i >= Len(color_counts)
       THEN /\ pc' = "raised"
            /\ UNCHANGED <<i, results>>
       ELSE /\ results' = Append(results, ColorRecord(color_counts, palette, total, i))
            /\ i' = i + 1
            /\ pc' = "loop"
    /\ UNCHANGED <<objs, image, upload, num_colors, paletted, palette, color_counts, total>>

\* return results
Return ==
    /\ pc = "loop"
    /\ i = num_colors
    /\ pc' = "returned"
    /\ UNCHANGED <<objs, image, upload, num_colors, paletted, palette, color_counts,
                   total, i, results, stages>>

\* index(): preview = image.copy(); preview.thumbnail((600, 600))
Preview ==
    /\ pc = "returned"
    /\ LET p == CopyRef("upload", "preview")
       IN objs' = [objs EXCEPT ![p] = Thumbnail(objs["upload"], PREVIEW_SIZE)]
    /\ pc' = "done"
    /\ UNCHANGED <<image, upload, num_colors, paletted, palette, color_counts, total,
                   i, results, stages>>

Next ==
    \/ ParseNumColors
    \/ CopyImage
    \/ Downscale
    \/ Flatten
    \/ QuantizeImage
    \/ CountColors
    \/ Rank
    \/ FormatStep
    \/ Return
    \/ Preview

Spec == Init /\ [][Next]_vars

----------------------------------------------------------------------------
\* Properties

\* extract_palette_pillow has returned a list (index() may have gone on)
Returned == pc \in {"returned", "done"}

\* the call has ended, by return or by an exception
Ended == pc \in {"returned", "done", "raised"}

\* the working image the quantizer saw (meaningful once Flatten has run)
Working == objs[image]

RECURSIVE SumField(_, _)
\* sum of field f over a sequence of records
SumField(s, f) == IF s = <<>> THEN 0 ELSE Head(s)[f] + SumField(Tail(s), f)

Opaque(img) == \A c \in DOMAIN img.px : c[4] = 255
Uniform(img) == Cardinality(DOMAIN img.px) = 1

\* the record of n pixels of colour c covering the whole image
WholeImageRecord(c, n) ==
    [hex |-> HexCode(c[1], c[2], c[3]), rgb |-> <<c[1], c[2], c[3]>>,
     count |-> n, percent |-> 10000]

\* C1: for an image with at least one pixel the call returns, and the list has
\* at most num_colors records and at most as many as the downscaled, flattened
\* image has distinct colours.
C1_ReturnsAtMostKRecords ==
    Pixels(upload) >= 1 =>
        /\ pc # "raised"
        /\ Returned => /\ Len(results) <= num_colors
                       /\ Len(results) <= Cardinality(DOMAIN Working.px)

\* C2: for an opaque image of one colour c, within the thumbnail bound, the
\* call does not fail and returns exactly the record of c with the count of
\* all pixels and 100.0 percent.
C2_SolidImageOneRecord ==
    (Pixels(upload) >= 1 /\ Opaque(upload) /\ Uniform(upload) /\ ~IsLarge(upload.size)) =>
        /\ pc # "raised"
        /\ Returned =>
              \E c \in DOMAIN upload.px :
                  results = <<WholeImageRecord(c, Pixels(upload))>>

\* C3: the records of a returned list are in non-increasing order of count.
C3_SortedByCount ==
    Returned => \A j \in 1 .. (Len(results) - 1) :
                    results[j].count >= results[j + 1].count

C3_Witness ==
    /\ Returned
    /\ Len(results) >= 2
    /\ results[1].count > results[2].count
    /\ GetColors(paletted) # color_counts

\* C4: total is the number of pixels of the quantized image, the sum over all
\* used palette entries; the counts of the returned records sum to at most
\* total, and to total when every used entry is returned.
C4_TotalOverAllEntries ==
    Returned =>
        /\ total = Pixels(Working)
        /\ SumField(results, "count") <= total
        /\ Len(results) = Len(color_counts) => SumField(results, "count") = total

C4_Witness ==
    /\ Returned
    /\ Len(results) >= 2
    /\ Len(results) = Len(color_counts)
    /\ results[1].count < total
    /\ SumField(results, "count") = total

\* percent p (hundredths) is a nearest hundredth to count / tot * 100
NearestHundredth(p, count, tot) ==
    LET diff == p * tot - count * 10000
    IN 2 * (IF diff >= 0 THEN diff ELSE -diff) <= tot

\* C5 (as amended): every record's percent is count / total * 100 rounded to
\* two decimals on its own, and lies in [0, 100]: a record of less than
\* 0.005 % of the pixels has percent 0.0.
C5_PercentRounded ==
    Returned => \A j \in 1 .. Len(results) :
                    /\ NearestHundredth(results[j].percent, results[j].count, total)
                    /\ results[j].percent >= 0
                    /\ results[j].percent <= 10000

\* C5 (as stated): every record's percent is count / total * 100 rounded to
\* two decimals and lies in (0, 100].
C5_PercentRoundedPositive ==
    Returned => \A j \in 1 .. Len(results) :
                    /\ NearestHundredth(results[j].percent, results[j].count, total)
                    /\ results[j].percent > 0
                    /\ results[j].percent <= 10000

\* three records of a third each: 33.33 each, 99.99 together
C5_Witness ==
    /\ Returned
    /\ Len(results) = 3
    /\ \A j \in 1 .. 3 : results[j].percent * total # results[j].count * 10000
    /\ SumField(results, "percent") # 10000

\* C6: for an RGBA image whose pixels all have alpha 0 the call returns exactly
\* one record, white, with the count of all pixels and 100.0 percent.
C6_TransparentImageIsWhite ==
    (upload.mode = "RGBA" /\ Pixels(upload) >= 1 /\ ~IsLarge(upload.size)
        /\ \A c \in DOMAIN upload.px : c[4] = 0) =>
        /\ pc # "raised"
        /\ Returned => results = <<WholeImageRecord(White, Pixels(upload))>>

\* C7: with num_colors = 1, on an image of exactly two distinct colours with
\* different pixel counts, the one record returned has the colour with the
\* higher count.
C7_OneColorIsTheMajority ==
    (Returned /\ num_colors = 1 /\ Cardinality(DOMAIN Working.px) = 2) =>
        \A c, d \in DOMAIN Working.px :
            Working.px[c] > Working.px[d] =>
                /\ Len(results) = 1
                /\ results[1].rgb = <<c[1], c[2], c[3]>>

\* C8: a call on an image without pixels ends as a failure with none of the
\* stages run, and the percentages are never computed with total = 0.
C8_ZeroPixelsRejected ==
    /\ (Pixels(upload) = 0 /\ Ended) => (pc = "raised" /\ stages = {})
    /\ (pc = "loop" /\ i < Len(color_counts)) => total > 0

\* C9: the caller's image is never changed by the call, and the preview is the
\* 600-bounded thumbnail of the upload as it was opened.
C9_CallerImageUnchanged ==
    /\ objs["upload"] = upload
    /\ pc = "done" => objs["preview"] = Thumbnail(upload, PREVIEW_SIZE)

C9_Witness ==
    /\ pc = "done"
    /\ objs["copy"].size # upload.size
    /\ objs["preview"].size # objs["copy"].size

\* C10 (as amended): records of equal count appear in descending order of
\* palette index, the reverse of the order in which getcolors lists them.
C10_TiesByDescendingIndex ==
    Returned => \A a, b \in 1 .. Len(results) :
                    (a < b /\ results[a].count = results[b].count) =>
                        color_counts[a][2] > color_counts[b][2]

\* C10 (as stated): records of equal count appear in the order in which
\* getcolors lists them, by ascending palette index.
C10_TiesInEnumerationOrder ==
    Returned => \A a, b \in 1 .. Len(results) :
                    (a < b /\ results[a].count = results[b].count) =>
                        color_counts[a][2] < color_counts[b][2]

C10_Witness ==
    /\ Returned
    /\ Len(results) >= 2
    /\ results[1].count = results[2].count

====
